---------------------------- MODULE Spec2Model ----------------------------
(***************************************************************************)
(* A model of librosa/effects.py: the memoised audio effects hpss,        *)
(* harmonic, percussive, time_stretch, pitch_shift and remix.             *)
(*                                                                         *)
(* An audio buffer is a record [dtype, ndim, ch]: ch is the sequence of   *)
(* its channels, each a sequence of samples; a 1-D buffer has ndim = 1    *)
(* and one channel.  Samples are even integers, so that the mean of two   *)
(* channels is an integer.  Python indexes from 0 and TLA+ sequences from *)
(* 1: At(arr, i) reads the element at the Python index i.                 *)
(*                                                                         *)
(* librosa.core, librosa.decompose, librosa.util and the cache decorator  *)
(* are not part of effects.py; they are modelled from their documented    *)
(* contracts, and the collaborators that transform audio are black boxes  *)
(* whose outcome (an exception, or an output of some length) is drawn by  *)
(* the environment record env of each call.                               *)
(***************************************************************************)
EXTENDS Integers, Sequences, FiniteSets, TLC

VARIABLES cache,   \* the process-wide memo store: (operation, arguments) -> value
          ncalls,  \* public calls made so far in this process
          call,    \* the last public call: [op, args]
          ret,     \* what the last call did: [status, value, raised, stft, matchEmpty]
          done     \* every call (nested ones included) that has returned a value

vars == <<cache, ncalls, call, ret, done>>

(***************************** bounds *************************************)
MaxLen == 2        \* time length of the short buffers
MaxIntervals == 2  \* intervals of one remix plan
LongLen == 8       \* time length of the long 1-D buffers
MaxCalls == 2      \* public calls in one process
MaxIndex == 21     \* largest sample index given to the boundary snapping
MaxEvents == 3     \* candidates given to the boundary snapping
MaxWidth == 1      \* width of an interval given to the boundary snapping

(* bins_per_octave=12 *)
DefaultBinsPerOctave == 12

(* shape=(t,) or (2, t): a 2-D buffer has two channels *)
Stereo == 2

(***************************** helpers ************************************)
Abs(x) == IF x < 0 THEN -x ELSE x
Min(a, b) == IF a < b THEN a ELSE b
Max(a, b) == IF a > b THEN a ELSE b
Sign(v) == IF v > 0 THEN 1 ELSE IF v < 0 THEN -1 ELSE 0
At(arr, i) == arr[i + 1]
SeqsUpTo(S, k) == UNION {[1..m -> S] : m \in 0..k}

(* y.shape[-1], y.ndim and len(y) of a numpy array *)
NumSamples(y) == Len(y.ch[1])
PyLen(y) == IF y.ndim = 1 THEN Len(y.ch[1]) ELSE Len(y.ch)

Mono(dtype, samples) == [dtype |-> dtype, ndim |-> 1, ch |-> <<samples>>]
Multi(dtype, chans) == [dtype |-> dtype, ndim |-> 2, ch |-> chans]

(* what a call did; value is the tuple of the buffers it returned *)
Raise(who, nstft, matchedEmpty) ==
    [status |-> "raise", value |-> <<>>, raised |-> who, stft |-> nstft,
     matchEmpty |-> matchedEmpty]
Return(v, nstft) ==
    [status |-> "ok", value |-> v, raised |-> "none", stft |-> nstft,
     matchEmpty |-> FALSE]

(************************ librosa.util, librosa.core **********************)
(* valid_audio(y, mono): a floating-point array of 1 or 2 dimensions      *)
valid_audio(y, mono) ==
    /\ y.dtype = "float"
    /\ y.ndim \in {1, 2}
    /\ mono => y.ndim = 1

RECURSIVE SumChannels(_, _, _)
SumChannels(chans, c, i) ==
    IF c > Len(chans) THEN 0 ELSE chans[c][i] + SumChannels(chans, c + 1, i)

(* to_mono(y): the channel average *)
to_mono(y) ==
    IF y.ndim = 1 THEN y.ch[1]
    ELSE [i \in 1..NumSamples(y) |-> SumChannels(y.ch, 1, i) \div Len(y.ch)]

(* zero_crossings(x)[i] is true where sign(x[i]) differs from sign(x[i-1]) *)
zero_crossings(x) ==
    [i \in 1..Len(x) |-> i > 1 /\ Sign(x[i]) # Sign(x[i - 1])]

(* np.nonzero(b)[-1]: the (0-based) indices of the true entries, ascending *)
RECURSIVE nonzero_from(_, _)
nonzero_from(b, i) ==
    IF i > Len(b) THEN <<>>
    ELSE (IF b[i] THEN <<i - 1>> ELSE <<>>) \o nonzero_from(b, i + 1)

nonzero(b) == nonzero_from(b, 1)

(* binary search: the first 0-based index in lo..hi whose candidate is >= q *)
RECURSIVE bisect_left(_, _, _, _)
bisect_left(C, q, lo, hi) ==
    IF lo >= hi THEN lo
    ELSE LET mid == (lo + hi) \div 2
         IN  IF At(C, mid) < q THEN bisect_left(C, q, mid + 1, hi)
             ELSE bisect_left(C, q, lo, mid)

(* the index of the candidate nearest to q; the smaller one on a tie *)
match_one(q, C) ==
    LET r == bisect_left(C, q, 0, Len(C))
    IN  IF r = 0 THEN 0
        ELSE IF r = Len(C) THEN r - 1
        ELSE IF q - At(C, r - 1) <= At(C, r) - q THEN r - 1 ELSE r

(* match_events(events_from, events_to), for a non-empty events_to *)
match_events(events_from, events_to) ==
    [k \in 1..Len(events_from) |-> match_one(events_from[k], events_to)]

(******************************* remix ************************************)
(* zeros[match_events(interval, zeros)]: each boundary on its own *)
SnapIndexOnly(interval, zeros) ==
    match_events(interval, zeros)

SnapToStart(interval, zeros) ==
    LET idx == match_events(interval, zeros)
    IN  [k \in 1..Len(interval) |-> At(zeros, idx[1])]

Snap(interval, zeros) ==
    LET idx == match_events(interval, zeros)
    IN  [k \in 1..Len(interval) |-> At(zeros, idx[k])]

(* a[start:stop] of Python: a negative bound counts from the end, and a   *)
(* bound outside the array is cut to it                                    *)
SliceBound(i, n) == IF i < 0 THEN Max(i + n, 0) ELSE Min(i, n)

SliceShort(a, start, stop) ==
    SubSeq(a, SliceBound(start, Len(a)) + 1, SliceBound(stop, Len(a)) - 1)

Slice(a, start, stop) ==
    SubSeq(a, SliceBound(start, Len(a)) + 1, SliceBound(stop, Len(a)))

(* clip[-1] = slice(interval[0], interval[1]); y[clip]: the time axis is  *)
(* cut, the channel axis is kept                                           *)
Clip(y, interval) ==
    [y EXCEPT !.ch = [c \in 1..Len(y.ch) |-> Slice(y.ch[c], interval[1], interval[2])]]

RECURSIVE JoinChannel(_, _, _)
JoinChannel(pieces, c, k) ==
    IF k > Len(pieces) THEN <<>>
    ELSE pieces[k].ch[c] \o JoinChannel(pieces, c, k + 1)

(* np.concatenate(y_out, axis=-1) of a non-empty list *)
concatenate(y_out) ==
    [y_out[1] EXCEPT !.ch = [c \in 1..Len(y_out[1].ch) |-> JoinChannel(y_out, c, 1)]]

RECURSIVE remix_loop_prepend(_, _, _, _, _, _)
remix_loop_prepend(y, intervals, align_zeros, zeros, i, y_out) ==
    IF i > Len(intervals)
    THEN [raised |-> "none", y_out |-> y_out]
    ELSE IF align_zeros /\ zeros = <<>>
    THEN [raised |-> "match_events", y_out |-> y_out]
    ELSE LET interval == IF align_zeros THEN Snap(intervals[i], zeros)
                         ELSE intervals[i]
         IN  remix_loop_prepend(y, intervals, align_zeros, zeros, i + 1,
                                <<Clip(y, interval)>> \o y_out)

(* for interval in intervals: ... y_out.append(y[clip]) *)
RECURSIVE remix_loop(_, _, _, _, _, _)
remix_loop(y, intervals, align_zeros, zeros, i, y_out) ==
    IF i > Len(intervals)
    THEN [raised |-> "none", y_out |-> y_out]
    ELSE IF align_zeros /\ zeros = <<>>
    THEN [raised |-> "match_events", y_out |-> y_out]
    ELSE LET interval == IF align_zeros THEN Snap(intervals[i], zeros)
                         ELSE intervals[i]
         IN  remix_loop(y, intervals, align_zeros, zeros, i + 1,
                        Append(y_out, Clip(y, interval)))

remix_body(y, intervals, align_zeros) ==
    IF ~valid_audio(y, FALSE) THEN Raise("valid_audio", 0, FALSE)
    ELSE LET zeros == IF align_zeros THEN nonzero(zero_crossings(to_mono(y)))
                      ELSE <<>>
             loop == remix_loop(y, intervals, align_zeros, zeros, 1, <<>>)
         IN  IF loop.raised # "none" THEN Raise(loop.raised, 0, TRUE)
             ELSE IF loop.y_out = <<>> THEN Raise("concatenate", 0, FALSE)
             ELSE Return(<<concatenate(loop.y_out)>>, 0)


(************** the black-box collaborators of the pipelines **************)
(* What the environment lets one call's collaborators do: which of them  *)
(* raises (if any), and how far the lengths of the inverse transform's   *)
(* and the resampler's outputs are from len(y).                           *)
OutLen(y, d) == Max(PyLen(y) + d, 0)

(* librosa.core.stft(y) -> SpectrogramFrame *)
stft(y, env) ==
    [ok |-> env.fail # "stft", value |-> [of |-> y, part |-> "all"]]

(* librosa.decompose.hpss(S) -> (harmonic, percussive) *)
decompose_hpss(S, env) ==
    [ok |-> env.fail # "hpss",
     value |-> <<[S EXCEPT !.part = "harmonic"], [S EXCEPT !.part = "percussive"]>>]

(* librosa.phase_vocoder(S, rate) -> SpectrogramFrame *)
phase_vocoder(S, rate, env) ==
    [ok |-> env.fail # "phase_vocoder", value |-> [S EXCEPT !.part = "stretched"]]

(* librosa.istft(S, dtype) -> a 1-D buffer of n samples; the samples of   *)
(* the harmonic part are written 2, of the percussive part -2, else 4     *)
istft(S, dtype, n, env) ==
    LET v == IF S.part = "harmonic" THEN 2
             ELSE IF S.part = "percussive" THEN -2 ELSE 4
    IN  [ok |-> env.fail # "istft", value |-> Mono(dtype, [i \in 1..n |-> v])]

(* librosa.resample(y, orig_sr, target_sr) -> a 1-D buffer of n samples *)
resample(y, orig_sr, target_sr, n, env) ==
    [ok |-> env.fail # "resample", value |-> Mono(y.dtype, [i \in 1..n |-> 6])]

(* librosa.util.fix_length(y, n): the time axis cut or zero-padded to n *)
fix_length(y, n) ==
    [y EXCEPT !.ch = [c \in 1..Len(y.ch) |->
        [i \in 1..n |-> IF i <= Len(y.ch[c]) THEN y.ch[c][i] ELSE 0]]]

(********************** the memoisation decorator *************************)
(* the operations that carry @cache *)
DecoratedButHarmonic(op) ==
    op \in {"hpss", "percussive", "time_stretch", "pitch_shift", "remix"}

Decorated(op) ==
    op \in {"hpss", "harmonic", "percussive", "time_stretch", "pitch_shift", "remix"}

Put(c, key, v) == [k \in DOMAIN c \cup {key} |-> IF k = key THEN v ELSE c[k]]

CallRecord(op, args, v) == [op |-> op, args |-> args, value |-> v]

(* A decorated call: the stored value when the key (operation, arguments  *)
(* by value) is in the store; otherwise the body runs (r is what it did,  *)
(* inner the store and the returned calls after the body's own nested     *)
(* calls) and its value is stored if it returned one.                     *)
Memo(op, args, c, r, inner) ==
    LET key == <<op, args>>
    IN  IF Decorated(op) /\ key \in DOMAIN c
        THEN [res |-> Return(c[key], 0), cache |-> c,
              calls |-> {CallRecord(op, args, c[key])}]
        ELSE IF r.status = "ok"
        THEN [res |-> r,
              cache |-> IF Decorated(op) THEN Put(inner.cache, key, r.value)
                        ELSE inner.cache,
              calls |-> inner.calls \cup {CallRecord(op, args, r.value)}]
        ELSE [res |-> r, cache |-> inner.cache, calls |-> inner.calls]

NoInner(c) == [cache |-> c, calls |-> {}]

(************************** the effect pipelines **************************)
hpss_body_unfixed(y, env) ==
    LET S == stft(y, env)
        D == decompose_hpss(S.value, env)
        h == istft(D.value[1], y.dtype, OutLen(y, env.d1), env)
        p == istft(D.value[2], y.dtype, OutLen(y, env.d2), env)
    IN  IF ~S.ok THEN Raise("stft", 1, FALSE)
        ELSE IF ~D.ok THEN Raise("hpss", 1, FALSE)
        ELSE IF ~h.ok \/ ~p.ok THEN Raise("istft", 1, FALSE)
        ELSE Return(<<fix_length(h.value, PyLen(y)), p.value>>, 1)

hpss_body(y, env) ==
    LET S == stft(y, env)
        D == decompose_hpss(S.value, env)
        h == istft(D.value[1], y.dtype, OutLen(y, env.d1), env)
        p == istft(D.value[2], y.dtype, OutLen(y, env.d2), env)
    IN  IF ~S.ok THEN Raise("stft", 1, FALSE)
        ELSE IF ~D.ok THEN Raise("hpss", 1, FALSE)
        ELSE IF ~h.ok \/ ~p.ok THEN Raise("istft", 1, FALSE)
        ELSE Return(<<fix_length(h.value, PyLen(y)),
                      fix_length(p.value, PyLen(y))>>, 1)

harmonic_body(y, env) ==
    LET S == stft(y, env)
        D == decompose_hpss(S.value, env)
        h == istft(D.value[1], y.dtype, OutLen(y, env.d1), env)
    IN  IF ~S.ok THEN Raise("stft", 1, FALSE)
        ELSE IF ~D.ok THEN Raise("hpss", 1, FALSE)
        ELSE IF ~h.ok THEN Raise("istft", 1, FALSE)
        ELSE Return(<<fix_length(h.value, PyLen(y))>>, 1)

percussive_body(y, env) ==
    LET S == stft(y, env)
        D == decompose_hpss(S.value, env)
        p == istft(D.value[2], y.dtype, OutLen(y, env.d2), env)
    IN  IF ~S.ok THEN Raise("stft", 1, FALSE)
        ELSE IF ~D.ok THEN Raise("hpss", 1, FALSE)
        ELSE IF ~p.ok THEN Raise("istft", 1, FALSE)
        ELSE Return(<<fix_length(p.value, PyLen(y))>>, 1)

(* rate is a fraction <<numerator, denominator>>; no test of its sign *)
time_stretch_body(y, rate, env) ==
    LET S == stft(y, env)
        V == phase_vocoder(S.value, rate, env)
        s == istft(V.value, y.dtype, OutLen(y, env.d1), env)
    IN  IF ~S.ok THEN Raise("stft", 1, FALSE)
        ELSE IF ~V.ok THEN Raise("phase_vocoder", 1, FALSE)
        ELSE IF ~s.ok THEN Raise("istft", 1, FALSE)
        ELSE Return(<<s.value>>, 1)

hpss(y, c, env) == Memo("hpss", <<y>>, c, hpss_body(y, env), NoInner(c))
harmonic(y, c, env) == Memo("harmonic", <<y>>, c, harmonic_body(y, env), NoInner(c))
percussive(y, c, env) == Memo("percussive", <<y>>, c, percussive_body(y, env), NoInner(c))
time_stretch(y, rate, c, env) ==
    Memo("time_stretch", <<y, rate>>, c, time_stretch_body(y, rate, env), NoInner(c))

(* 2.0 ** k for a whole k, as a fraction *)
RECURSIVE Pow2(_)
Pow2(k) == IF k = 0 THEN 1 ELSE 2 * Pow2(k - 1)
TwoToThe(k) == IF k >= 0 THEN <<Pow2(k), 1>> ELSE <<1, Pow2(-k)>>

(* rate = 2.0 ** (-float(n_steps) / bins_per_octave), for the n_steps     *)
(* that are whole multiples of bins_per_octave                             *)
ShiftRate(n_steps, bins_per_octave) ==
    TwoToThe((0 - n_steps) \div bins_per_octave)

(* the body of pitch_shift: st is the nested (decorated) time_stretch call *)
pitch_shift_swallow(y, sr, n_steps, bins_per_octave, st, env) ==
    LET rate == ShiftRate(n_steps, bins_per_octave)
        y_shift == resample(st.res.value[1], <<sr * rate[2], rate[1]>>, sr,
                            OutLen(y, env.d2), env)
    IN  IF st.res.status # "ok" THEN st.res
        ELSE IF ~y_shift.ok
        THEN [Return(<<fix_length(st.res.value[1], PyLen(y))>>, st.res.stft)
                EXCEPT !.raised = "resample"]
        ELSE Return(<<fix_length(y_shift.value, PyLen(y))>>, st.res.stft)

pitch_shift_body(y, sr, n_steps, bins_per_octave, st, env) ==
    LET rate == ShiftRate(n_steps, bins_per_octave)
        y_shift == resample(st.res.value[1], <<sr * rate[2], rate[1]>>, sr,
                            OutLen(y, env.d2), env)
    IN  IF st.res.status # "ok" THEN st.res
        ELSE IF ~y_shift.ok THEN Raise("resample", st.res.stft, FALSE)
        ELSE Return(<<fix_length(y_shift.value, PyLen(y))>>, st.res.stft)

pitch_shift(y, sr, n_steps, bins_per_octave, c, env) ==
    LET st == time_stretch(y, ShiftRate(n_steps, bins_per_octave), c, env)
    IN  Memo("pitch_shift", <<y, sr, n_steps, bins_per_octave>>, c,
             pitch_shift_body(y, sr, n_steps, bins_per_octave, st, env),
             [cache |-> st.cache, calls |-> st.calls])

remix(y, intervals, align_zeros, c) ==
    Memo("remix", <<y, intervals, align_zeros>>, c,
         remix_body(y, intervals, align_zeros), NoInner(c))


(****************************** the calls *********************************)
NoCall == [op |-> "none"]
Key(c) == <<c.op, c.args>>

(* one public call, from its entry to its return or its exception *)
DoCall(op, args, m) ==
    /\ ncalls < MaxCalls
    /\ ncalls' = ncalls + 1
    /\ call' = [op |-> op, args |-> args]
    /\ ret' = m.res
    /\ cache' = m.cache
    /\ done' = done \cup m.calls

Hpss(y, env) == DoCall("hpss", <<y>>, hpss(y, cache, env))
Harmonic(y, env) == DoCall("harmonic", <<y>>, harmonic(y, cache, env))
Percussive(y, env) == DoCall("percussive", <<y>>, percussive(y, cache, env))
TimeStretch(y, rate, env) ==
    DoCall("time_stretch", <<y, rate>>, time_stretch(y, rate, cache, env))
PitchShift(y, sr, n_steps, bins_per_octave, env) ==
    DoCall("pitch_shift", <<y, sr, n_steps, bins_per_octave>>,
           pitch_shift(y, sr, n_steps, bins_per_octave, cache, env))
Remix(y, intervals, align_zeros) ==
    DoCall("remix", <<y, intervals, align_zeros>>,
           remix(y, intervals, align_zeros, cache))

(* interval = zeros[librosa.util.match_events(interval, zeros)], alone *)
SnapBoundaries(interval, zeros) ==
    /\ ncalls = 0
    /\ ncalls' = 1
    /\ call' = [op |-> "snap", args |-> <<interval, zeros>>]
    /\ ret' = Return(<<Snap(interval, zeros)>>, 0)
    /\ UNCHANGED <<cache, done>>

Init ==
    /\ cache = <<>>
    /\ ncalls = 0
    /\ call = NoCall
    /\ ret = Raise("none", 0, FALSE)
    /\ done = {}

(*********** a process that calls the effects again and again *************)
Deltas == {-1, 0, 1}
CacheBuffers == {Mono("float", <<2>>), Mono("float", <<2, -2>>)}
Rates == {<<0, 1>>, <<2, 1>>}
NSteps == {0 - DefaultBinsPerOctave, 0}
SampleRates == {22050}
Plans == {<<>>, << <<0, 1>> >>}

Next ==
    \/ \E y \in CacheBuffers, f \in {"none", "stft", "hpss", "istft"},
          d1 \in Deltas, d2 \in Deltas :
          Hpss(y, [fail |-> f, d1 |-> d1, d2 |-> d2])
    \/ \E y \in CacheBuffers, f \in {"none", "stft", "hpss", "istft"}, d1 \in Deltas :
          Harmonic(y, [fail |-> f, d1 |-> d1, d2 |-> 0])
    \/ \E y \in CacheBuffers, f \in {"none", "stft", "hpss", "istft"}, d2 \in Deltas :
          Percussive(y, [fail |-> f, d1 |-> 0, d2 |-> d2])
    \/ \E y \in CacheBuffers, f \in {"none", "stft", "phase_vocoder", "istft"},
          d1 \in Deltas, rate \in Rates :
          TimeStretch(y, rate, [fail |-> f, d1 |-> d1, d2 |-> 0])
    \/ \E y \in CacheBuffers,
          f \in {"none", "stft", "phase_vocoder", "istft", "resample"},
          d1 \in Deltas, d2 \in Deltas, sr \in SampleRates, n_steps \in NSteps :
          PitchShift(y, sr, n_steps, DefaultBinsPerOctave,
                     [fail |-> f, d1 |-> d1, d2 |-> d2])
    \/ \E y \in CacheBuffers \cup {Mono("int", <<2>>)}, intervals \in Plans,
          align_zeros \in BOOLEAN :
          Remix(y, intervals, align_zeros)

Spec == Init /\ [][Next]_vars

(************* a fresh process that makes one call of remix ***************)
Samples == {-2, 2}
Signals(n) == [1..n -> Samples]
ShortSignals == UNION {Signals(n) : n \in 0..MaxLen}

ShortBuffers ==
    {Mono(dt, s) : dt \in {"float", "int"}, s \in ShortSignals}
    \cup UNION {{Multi("float", chans) : chans \in [1..Stereo -> Signals(n)]}
                : n \in 0..MaxLen}
LongBuffers == {Mono("float", s) : s \in Signals(LongLen)}

(* the intervals 0 <= start <= end <= n, and those one sample around them *)
Inside(n) == {<<s, e>> : s \in 0..n, e \in 0..n} \cap {p \in (0..n) \X (0..n) : p[1] <= p[2]}
Around(n) == (-1..n + 1) \X (-1..n + 1)

RemixOf(y, plans) ==
    \E intervals \in plans, align_zeros \in BOOLEAN : Remix(y, intervals, align_zeros)

(* a plan of several intervals inside a short buffer *)
RemixShort ==
    /\ ncalls = 0
    /\ \E y \in ShortBuffers :
          RemixOf(y, SeqsUpTo(Inside(NumSamples(y)), MaxIntervals))

(* one interval that may reach outside a short buffer *)
RemixAround ==
    /\ ncalls = 0
    /\ \E y \in ShortBuffers : RemixOf(y, {<<p>> : p \in Around(NumSamples(y))})

(* one interval inside a long buffer *)
RemixLong ==
    /\ ncalls = 0
    /\ \E y \in LongBuffers : RemixOf(y, {<<p>> : p \in Inside(NumSamples(y))})

NextRemix == RemixShort \/ RemixAround \/ RemixLong

SpecRemix == Init /\ [][NextRemix]_vars

(*********** the boundary snapping of remix applied on its own ************)
(* the strictly increasing sequences of at most k indices in lo..MaxIndex *)
RECURSIVE Increasing(_, _)
Increasing(lo, k) ==
    IF k = 0 THEN {<<>>}
    ELSE {<<>>} \cup UNION {{<<c>> \o t : t \in Increasing(c + 1, k - 1)}
                            : c \in lo..MaxIndex}

NextMatch ==
    /\ ncalls = 0
    /\ \E zeros \in Increasing(0, MaxEvents) \ {<<>>}, q \in 0..MaxIndex, w \in 0..MaxWidth :
          SnapBoundaries(<<q, q + w>>, zeros)

SpecMatch == Init /\ [][NextMatch]_vars


(*************************** the properties *******************************)
IsRemix == call.op = "remix"
ArgY == call.args[1]
ArgIntervals == call.args[2]
ArgAlign == call.args[3]
Out == ret.value[1]

InBounds(p, n) == 0 <= p[1] /\ p[1] <= p[2] /\ p[2] <= n
AllInBounds(intervals, n) == \A k \in 1..Len(intervals) : InBounds(intervals[k], n)

RECURSIVE TotalLength(_, _)
TotalLength(intervals, k) ==
    IF k = 0 THEN 0
    ELSE TotalLength(intervals, k - 1) + (intervals[k][2] - intervals[k][1])

(* out holds, interval after interval in the order given, the samples      *)
(* start..end-1 of every channel of y                                      *)
IsSplice(out, y, intervals) ==
    /\ out.ndim = y.ndim
    /\ out.dtype = y.dtype
    /\ Len(out.ch) = Len(y.ch)
    /\ \A c \in 1..Len(y.ch) :
          /\ Len(out.ch[c]) = TotalLength(intervals, Len(intervals))
          /\ \A k \in 1..Len(intervals) :
                \A j \in 0..(intervals[k][2] - intervals[k][1] - 1) :
                    At(out.ch[c], TotalLength(intervals, k - 1) + j)
                        = At(y.ch[c], intervals[k][1] + j)

UnalignedCall ==
    /\ IsRemix
    /\ valid_audio(ArgY, FALSE)
    /\ ~ArgAlign
    /\ AllInBounds(ArgIntervals, NumSamples(ArgY))

(* C1, as claimed: for every finite sequence of intervals inside the       *)
(* buffer, the empty one included, remix without alignment returns the     *)
(* slices joined in the order given.                                       *)
C1_AnySequence ==
    UnalignedCall => ret.status = "ok" /\ IsSplice(Out, ArgY, ArgIntervals)

(* C1, amended: for every valid buffer and every non-empty sequence of     *)
(* intervals 0 <= s <= e <= n, remix without alignment returns y[..., s:e] *)
(* joined along time in the order given, neither sorted nor deduplicated,  *)
(* with the channels of y and the summed length; for an empty sequence it  *)
(* raises the error of the concatenation.                                  *)
C1_NonEmptySequence ==
    UnalignedCall =>
        IF ArgIntervals = <<>>
        THEN ret.status = "raise" /\ ret.raised = "concatenate"
        ELSE ret.status = "ok" /\ IsSplice(Out, ArgY, ArgIntervals)

(* a 2-D buffer remixed by two overlapping intervals given out of order *)
C1_Witness ==
    /\ UnalignedCall
    /\ ArgY.ndim = 2
    /\ ArgIntervals = << <<1, 2>>, <<0, 2>> >>
    /\ ret.status = "ok"
    /\ Len(Out.ch[2]) = 3

(* the zero-crossings of the mono downmix, and the one nearest to q *)
ZerosOf(y) == nonzero(zero_crossings(to_mono(y)))
Range(f) == {f[k] : k \in DOMAIN f}
Nearest(q, Z) ==
    CHOOSE c \in Z : \A d \in Z :
        Abs(c - q) < Abs(d - q) \/ (Abs(c - q) = Abs(d - q) /\ c <= d)
Snapped(intervals, Z) ==
    [k \in 1..Len(intervals) |->
        <<Nearest(intervals[k][1], Z), Nearest(intervals[k][2], Z)>>]

AlignedCall ==
    /\ IsRemix
    /\ valid_audio(ArgY, FALSE)
    /\ ArgAlign
    /\ ArgIntervals # <<>>
    /\ ZerosOf(ArgY) # <<>>

(* each boundary goes to its own nearest zero-crossing, and the buffer is  *)
(* cut between the two                                                     *)
SlicedBetweenSnapped ==
    AlignedCall =>
        /\ ret.status = "ok"
        /\ IsSplice(Out, ArgY,
                    [k \in 1..Len(ArgIntervals) |->
                        LET p == Snapped(ArgIntervals, Range(ZerosOf(ArgY)))[k]
                        IN  <<p[1], Max(p[1], p[2])>>])

ExampleCall ==
    /\ AlignedCall
    /\ ZerosOf(ArgY) = <<3, 7>>
    /\ ArgIntervals = << <<0, 5>> >>

(* C2, as claimed: boundaries are snapped one by one, and with the only    *)
(* zero-crossings at 3 and 7 the interval (0, 5) becomes (3, 7): the       *)
(* result is signal[3:7].                                                  *)
C2_SnapsFiveToSeven ==
    /\ SlicedBetweenSnapped
    /\ ExampleCall => ret.status = "ok" /\ IsSplice(Out, ArgY, << <<3, 7>> >>)

(* C2, amended: boundaries are snapped one by one to the nearest           *)
(* zero-crossing of the mono downmix and the buffer is cut between them;   *)
(* with the only zero-crossings at 3 and 7 the interval (0, 5) becomes     *)
(* (3, 3), since 5 is as far from 3 as from 7 and the smaller one wins,    *)
(* and the result is the empty signal[3:3].                                *)
C2_SnapsFiveToThree ==
    /\ SlicedBetweenSnapped
    /\ ExampleCall => ret.status = "ok" /\ IsSplice(Out, ArgY, << <<3, 3>> >>)

(* the example's call has returned *)
C2_Witness ==
    /\ ExampleCall
    /\ ret.status = "ok"
    /\ NumSamples(Out) = 0

(* C3, as claimed: an interval with a bound below 0 or above n makes remix *)
(* raise.                                                                  *)
C3_OutOfRangeRaises ==
    (/\ IsRemix
     /\ valid_audio(ArgY, FALSE)
     /\ \E k \in 1..Len(ArgIntervals) : \E b \in 1..2 :
           ArgIntervals[k][b] < 0 \/ ArgIntervals[k][b] > NumSamples(ArgY))
    => ret.status = "raise"

(* C4, as claimed: with alignment asked for and no zero-crossing in the    *)
(* downmix, remix raises without handing the empty candidate set to the    *)
(* matcher.                                                                *)
C4_EmptySetNeverMatched ==
    (/\ IsRemix
     /\ valid_audio(ArgY, FALSE)
     /\ ArgAlign
     /\ ZerosOf(ArgY) = <<>>)
    => ret.status = "raise" /\ ~ret.matchEmpty

(* C9: remix(y, [(0, n)]) without alignment returns a buffer equal to y    *)
C9_RoundTrip ==
    (/\ IsRemix
     /\ valid_audio(ArgY, FALSE)
     /\ ~ArgAlign
     /\ ArgIntervals = << <<0, NumSamples(ArgY)>> >>)
    => ret.status = "ok" /\ Out = ArgY

(* a 2-D buffer of full length has made the round trip *)
C9_Witness ==
    /\ IsRemix
    /\ ~ArgAlign
    /\ ArgY.ndim = 2
    /\ NumSamples(ArgY) = MaxLen
    /\ ArgIntervals = << <<0, NumSamples(ArgY)>> >>
    /\ ret.status = "ok"

(* the calls that have returned a value for the arguments of c *)
Earlier(c) == {h \in done : h.op = c.op /\ h.args = c.args}
Memoised == {"hpss", "harmonic", "percussive", "time_stretch", "pitch_shift", "remix"}
TransformFirst == {"hpss", "harmonic", "percussive", "time_stretch"}

(* C5: a call whose operation and arguments are those of an earlier call   *)
(* that returned a value returns that value again and does not invoke the  *)
(* transform; an operation that starts with the transform invokes it when  *)
(* no call of that same operation has returned a value for the arguments,  *)
(* whatever other operations were called with them.                        *)
C5_RepeatedCallIsServed ==
    [][(ncalls' = ncalls + 1 /\ call'.op \in Memoised) =>
          /\ \A h \in Earlier(call') :
                ret'.status = "ok" /\ ret'.value = h.value /\ ret'.stft = 0
          /\ (call'.op \in TransformFirst /\ Earlier(call') = {}) => ret'.stft = 1
      ]_vars

(* harmonic(y) has been called twice, and the second call was served *)
C5_Witness ==
    /\ ncalls = 2
    /\ call.op = "harmonic"
    /\ ret.status = "ok"
    /\ ret.stft = 0

(* C6: both buffers that hpss returns have the length of y *)
C6_HpssKeepsLength ==
    (call.op = "hpss" /\ ret.status = "ok") =>
        /\ Len(ret.value) = 2
        /\ \A k \in 1..2 : PyLen(ret.value[k]) = PyLen(call.args[1])

(* hpss has returned a pair whose percussive part was zero-padded *)
C6_Witness ==
    /\ call.op = "hpss"
    /\ ret.status = "ok"
    /\ ret.value[2].ch[1] = <<-2, 0>>

(* C7: a call in which a collaborator raised or an argument was refused    *)
(* raises, returns no value and leaves no entry for itself in the store    *)
C7_FailureLeavesNothing ==
    (call.op \in Memoised /\ ret.raised # "none") =>
        /\ ret.status = "raise"
        /\ ret.value = <<>>
        /\ Key(call) \notin DOMAIN cache

(* pitch_shift failed in the resampler after its time_stretch was stored *)
C7_Witness ==
    /\ call.op = "pitch_shift"
    /\ ret.raised = "resample"
    /\ <<"time_stretch", <<call.args[1], ShiftRate(call.args[3], call.args[4])>>>>
          \in DOMAIN cache
    /\ Key(call) \notin DOMAIN cache

(* C10, as claimed: time_stretch with a rate that is not positive raises   *)
(* before the transform is run.                                            *)
C10_RateCheckedFirst ==
    (call.op = "time_stretch" /\ call.args[2][1] <= 0) =>
        ret.status = "raise" /\ ret.stft = 0

(* C8: each boundary is mapped to the candidate nearest to it, the smaller *)
(* of two equally near ones; with the candidates 0, 10, 20 the query 5     *)
(* gives 0, 15 gives 10 and 21 gives 20.                                   *)
C8_NearestSmallerOnTie ==
    call.op = "snap" =>
        LET interval == call.args[1]
            zeros == call.args[2]
            snapped == ret.value[1]
        IN  \A k \in 1..2 :
              /\ snapped[k] \in Range(zeros)
              /\ \A c \in Range(zeros) :
                    \/ Abs(snapped[k] - interval[k]) < Abs(c - interval[k])
                    \/ /\ Abs(snapped[k] - interval[k]) = Abs(c - interval[k])
                       /\ snapped[k] <= c
              /\ zeros = <<0, 10, 20>> =>
                    /\ interval[k] = 5 => snapped[k] = 0
                    /\ interval[k] = 15 => snapped[k] = 10
                    /\ interval[k] = 21 => snapped[k] = 20

(* the query 15 has been matched against the candidates 0, 10, 20 *)
C8_Witness ==
    /\ call.op = "snap"
    /\ call.args = << <<15, 15>>, <<0, 10, 20>> >>
    /\ ret.value[1] = <<10, 10>>

=============================================================================
